---- MODULE Spec2Model ----
(***************************************************************************)
(* The event data model of compysition (src/compysition/event.py): the     *)
(* Event class family, the per-family payload conversion registry, the     *)
(* XML/JSON envelope rule, convert(), clone() and the error-to-HTTP-status *)
(* table.                                                                  *)
(*                                                                         *)
(* Python values are records tagged by t, so that any two values can be    *)
(* compared.  An instance is [cls, d]: its class and its __dict__, a       *)
(* function from attribute names to values; an attribute that was never    *)
(* assigned is outside DOMAIN d, exactly as in Python.                     *)
(***************************************************************************)
EXTENDS Integers, Sequences, FiniteSets, TLC

VARIABLES
    events,   \* the heap of event instances: a sequence, index = identity
    hdrs,     \* the heap of headers dicts (mutated in place by _set_error)
    last,     \* the outcome of the last operation (and the state before it)
    nops      \* how many operations have run

vars == <<events, hdrs, last, nops>>

----------------------------------------------------------------------------
(* Bounds of the model *)

MaxEvents == 3
MaxOps == 3

----------------------------------------------------------------------------
(* Python values *)

None == [t |-> "None"]
PyInt(n) == [t |-> "int", n |-> n]
PyBool(b) == [t |-> "bool", b |-> b]
\* a unicode string, as json.loads and xmltodict.parse produce
UStr(u) == [t |-> "unicode", u |-> u]
\* a byte string that is neither JSON nor XML text
Text(c) == [t |-> "str", k |-> "plain", c |-> c]
\* the byte string json.dumps(j) yields, which json.loads reads back as j
JsonText(j) == [t |-> "str", k |-> "json", j |-> j]
\* the byte string etree.tostring(x) yields, which etree.fromstring reads as x
XmlText(x) == [t |-> "str", k |-> "xml", x |-> x]
Dict(m) == [t |-> "dict", m |-> m]
List(items) == [t |-> "list", items |-> items]
Tuple2(code, reason) == [t |-> "tuple", code |-> code, reason |-> reason]
Ref(r) == [t |-> "ref", r |-> r]
Exc(kind) == [t |-> "exc", kind |-> kind]
\* an lxml element: tag, the force_list attribute, text, child elements
Element(tag, force, text, kids) ==
    [t |-> "xml", tag |-> tag, force |-> force, text |-> text, kids |-> kids]

EmptyMap == <<>>
Put(m, k, v) == [x \in DOMAIN m \cup {k} |-> IF x = k THEN v ELSE m[x]]
Remove(m, k) == [x \in DOMAIN m \ {k} |-> m[x]]
\* dict.update(other)
Update(m, other) ==
    [x \in DOMAIN m \cup DOMAIN other |-> IF x \in DOMAIN other THEN other[x] ELSE m[x]]

\* value.__class__, the key of a conversion_methods lookup
PyClass(v) ==
    CASE v.t = "None" -> "NoneType"
      [] v.t = "xml" -> "_Element"
      [] OTHER -> v.t

IsException(v) == v.t = "exc"

----------------------------------------------------------------------------
(* The class family *)

_XML_TYPES == {"_Element", "_ElementTree", "_XSLTResultTree"}
_JSON_TYPES == {"dict", "list", "OrderedDict"}

built_classes ==
    <<"Event", "XMLEvent", "JSONEvent", "HttpEvent", "JSONHttpEvent", "XMLHttpEvent",
      "LogEvent">>

Bases(cls) ==
    CASE cls = "Event" -> <<>>
      [] cls = "DataFormatInterface" -> <<>>
      [] cls = "_XMLFormatInterface" -> <<"DataFormatInterface">>
      [] cls = "_JSONFormatInterface" -> <<"DataFormatInterface">>
      [] cls = "HttpEvent" -> <<"Event">>
      [] cls = "XMLEvent" -> <<"_XMLFormatInterface", "Event">>
      [] cls = "JSONEvent" -> <<"_JSONFormatInterface", "Event">>
      [] cls = "JSONHttpEvent" -> <<"JSONEvent", "HttpEvent">>
      [] cls = "XMLHttpEvent" -> <<"XMLEvent", "HttpEvent">>
      [] cls = "LogEvent" -> <<"Event">>

RECURSIVE IsSubclass(_, _)
IsSubclass(cls, of) ==
    \/ cls = of
    \/ \E i \in 1..Len(Bases(cls)) : IsSubclass(Bases(cls)[i], of)

\* which class' conversion_methods the method resolution order finds first
Family(cls) ==
    IF IsSubclass(cls, "_JSONFormatInterface") THEN "json"
    ELSE IF IsSubclass(cls, "_XMLFormatInterface") THEN "xml"
    ELSE "plain"

\* whether HttpEvent's properties and _set_error apply to the class
IsHttp(cls) == IsSubclass(cls, "HttpEvent")

\* the capability set of a class: its payload family, and HTTP
Capabilities(cls) ==
    (IF Family(cls) = "plain" THEN {} ELSE {Family(cls)})
        \cup (IF IsHttp(cls) THEN {"http"} ELSE {})

----------------------------------------------------------------------------
(* Results of an operation that may raise *)

Ok(v) == [ok |-> TRUE, v |-> v, exc |-> "none"]
Raise(exc) == [ok |-> FALSE, v |-> None, exc |-> exc]

----------------------------------------------------------------------------
(* The XML/JSON envelope rule *)

\* the iteration order of a dict's keys, as positions in one fixed order
KeyOrder == <<"@force_list", "#text", "a", "b", "jsonified_envelope", "root">>
KeyPos(k) == CHOOSE i \in 1..Len(KeyOrder) : KeyOrder[i] = k

RECURSIVE KeysInOrder(_)
KeysInOrder(ks) ==
    IF ks = {} THEN <<>>
    ELSE LET k == CHOOSE x \in ks : \A y \in ks : KeyPos(x) <= KeyPos(y)
         IN  <<k>> \o KeysInOrder(ks \ {k})

PyLen(v) ==
    CASE v.t = "dict" -> Cardinality(DOMAIN v.m)
      [] v.t = "list" -> Len(v.items)

\* internal_xmlify: a result, since next() on an empty dict raises
internal_xmlify(_json) ==
    LET first == IF _json.t = "list" \/ PyLen(_json) > 1
                 THEN Dict([jsonified_envelope |-> _json])
                 ELSE _json
    IN  IF DOMAIN first.m = {} THEN Raise("StopIteration")
        ELSE LET key == KeysInOrder(DOMAIN first.m)[1]
                 value == first.m[key]
             IN  IF value.t = "list"
                 THEN Ok(Dict([jsonified_envelope |-> first]))
                 ELSE Ok(first)

remove_internal_xmlify(_json) ==
    IF _json.t = "dict" /\ PyLen(_json) = 1 /\ DOMAIN _json.m = {"jsonified_envelope"}
    THEN _json.m["jsonified_envelope"]
    ELSE _json

----------------------------------------------------------------------------
(* xmltodict.unparse and xmltodict.parse, on the values of this model *)

DigitStr == <<"0", "1", "2", "3", "4", "5", "6", "7", "8", "9">>

\* unicode(v) of a scalar, as _emit writes it
ScalarText(v) ==
    CASE v.t = "unicode" -> v.u
      [] v.t = "int" -> DigitStr[v.n + 1]
      [] v.t = "bool" -> IF v.b THEN "true" ELSE "false"
      [] OTHER -> "repr"

\* _emit's view of one value: None is an empty mapping, a scalar is its text
AsMapping(v) ==
    CASE v.t = "None" -> EmptyMap
      [] v.t = "dict" -> v.m
      [] OTHER -> ("#text" :> UStr(ScalarText(v)))

RECURSIVE EmitEach(_, _, _)
RECURSIVE EmitChildren(_, _, _)

\* the element _emit writes for one value under key
EmitOne(key, v) ==
    LET m == AsMapping(v)
        children == KeysInOrder(DOMAIN m \ {"#text", "@force_list"})
    IN  Element(key,
                "@force_list" \in DOMAIN m,
                IF "#text" \in DOMAIN m THEN ScalarText(m["#text"]) ELSE "",
                EmitChildren(m, children, 1))

\* a key's value is wrapped in a list unless it is one; one element per item
EmitEach(key, vs, i) ==
    IF i > Len(vs) THEN <<>>
    ELSE <<EmitOne(key, vs[i])>> \o EmitEach(key, vs, i + 1)

EmitChildren(m, keys, i) ==
    IF i > Len(keys) THEN <<>>
    ELSE LET value == m[keys[i]]
             vs == IF value.t = "list" THEN value.items ELSE <<value>>
         IN  EmitEach(keys[i], vs, 1) \o EmitChildren(m, keys, i + 1)

\* etree.fromstring(xmltodict.unparse(input_dict)): a result
unparse(input_dict) ==
    IF PyLen(input_dict) # 1 THEN Raise("ValueError")
    ELSE LET key == KeysInOrder(DOMAIN input_dict.m)[1]
             value == input_dict.m[key]
             vs == IF value.t = "list" THEN value.items ELSE <<value>>
         IN  IF Len(vs) = 0 THEN Raise("XMLSyntaxError")
             ELSE IF Len(vs) > 1 THEN Raise("ValueError")
             ELSE Ok(EmitOne(key, vs[1]))

\* should_force_list, without the pop it performs on a match
should_force_list(value) == value.t = "dict" /\ "@force_list" \in DOMAIN value.m

\* xmltodict's push_data with force_list=should_force_list
push_data(item, key, data) ==
    IF key \in DOMAIN item
    THEN IF item[key].t = "list"
         THEN Put(item, key, List(Append(item[key].items, data)))
         ELSE Put(item, key, List(<<item[key], data>>))
    ELSE IF should_force_list(data)
         THEN Put(item, key, List(<<Dict(Remove(data.m, "@force_list"))>>))
         ELSE Put(item, key, data)

RECURSIVE ParseItem(_)
RECURSIVE PushKids(_, _, _)

PushKids(item, kids, i) ==
    IF i > Len(kids) THEN item
    ELSE PushKids(push_data(item, kids[i].tag, ParseItem(kids[i])), kids, i + 1)

\* what endElement builds for an element: a mapping when it has attributes
\* or children (its text under #text), else its text, else None
ParseItem(e) ==
    LET data == IF e.text = "" THEN None ELSE UStr(e.text)
        attrs == IF e.force THEN ("@force_list" :> UStr("True")) ELSE EmptyMap
        item == PushKids(attrs, e.kids, 1)
    IN  IF e.force \/ Len(e.kids) > 0
        THEN IF data # None THEN Dict(Put(item, "#text", data)) ELSE Dict(item)
        ELSE data

\* xmltodict.parse(etree.tostring(data), force_list=should_force_list)
parse(e) == Dict(push_data(EmptyMap, e.tag, ParseItem(e)))

----------------------------------------------------------------------------
(* The conversion registry *)

\* json.loads(json.dumps(data, default=decimal_default)) on a container
RECURSIVE JsonCanon(_)
JsonCanon(v) ==
    CASE v.t = "dict" -> Dict([k \in DOMAIN v.m |-> JsonCanon(v.m[k])])
      [] v.t = "list" -> List([i \in 1..Len(v.items) |-> JsonCanon(v.items[i])])
      [] v.t = "str" -> UStr(v.c)
      [] v.t = "decimal" -> [t |-> "float", f |-> v.dec]
      [] OTHER -> v

\* _JSONFormatInterface.conversion_methods[data.__class__](data)
JsonConversion(data) ==
    LET c == PyClass(data)
    IN  IF c = "str"
        THEN IF data.k = "json" THEN Ok(data.j) ELSE Raise("ValueError")
        ELSE IF c \in _JSON_TYPES THEN Ok(JsonCanon(data))
        ELSE IF c \in _XML_TYPES THEN Ok(remove_internal_xmlify(parse(data)))
        ELSE IF c = "NoneType" THEN Ok(Dict(EmptyMap))
        ELSE Raise("KeyError")

\* _XMLFormatInterface.conversion_methods[data.__class__](data)
UnparseEnvelope(env) == IF env.ok THEN unparse(env.v) ELSE env

XmlConversion(data) ==
    LET c == PyClass(data)
    IN  IF c = "str"
        THEN IF data.k = "xml" THEN Ok(data.x) ELSE Raise("XMLSyntaxError")
        ELSE IF c \in _XML_TYPES THEN Ok(data)
        ELSE IF c \in _JSON_TYPES THEN UnparseEnvelope(internal_xmlify(data))
        ELSE IF c = "NoneType" THEN Ok(Element("root", FALSE, "", <<>>))
        ELSE Raise("KeyError")

\* Event.conversion_methods: defaultdict(lambda: lambda data: data)
PlainConversion(data) == Ok(data)

\* self.conversion_methods[data.__class__](data) for an instance of cls
conversion_methods(cls, data) ==
    CASE Family(cls) = "json" -> JsonConversion(data)
      [] Family(cls) = "xml" -> XmlConversion(data)
      [] OTHER -> PlainConversion(data)

\* the data setter: the stored value, or InvalidEventDataModification for
\* every exception of the conversion
AsDataError(r) == IF r.ok THEN r ELSE Raise("InvalidEventDataModification")

DataSetter(cls, data) == AsDataError(conversion_methods(cls, data))

----------------------------------------------------------------------------
(* The error-to-status table *)

\* http_code_map: a defaultdict keyed by the exception's exact class
http_code_map(kind) ==
    CASE kind = "ResourceNotModified" -> [status |-> Tuple2(304, "Not Modified")]
      [] kind = "MalformedEventData" -> [status |-> Tuple2(400, "Bad Request")]
      [] kind = "InvalidEventDataModification" -> [status |-> Tuple2(400, "Bad Request")]
      [] kind = "UnauthorizedEvent" ->
            [status |-> Tuple2(401, "Unauthorized"),
             headers |-> ("WWW-Authenticate" :> "Basic realm=\"Compysition Server\"")]
      [] kind = "ForbiddenEvent" -> [status |-> Tuple2(403, "Forbidden")]
      [] kind = "ResourceNotFound" -> [status |-> Tuple2(404, "Not Found")]
      [] kind = "EventCommandNotAllowed" -> [status |-> Tuple2(405, "Method Not Allowed")]
      [] kind = "ActorTimeout" -> [status |-> Tuple2(408, "Request Timeout")]
      [] kind = "ResourceConflict" -> [status |-> Tuple2(409, "Conflict")]
      [] kind = "ResourceGone" -> [status |-> Tuple2(410, "Gone")]
      [] kind = "UnprocessableEventData" -> [status |-> Tuple2(422, "Unprocessable Entity")]
      [] kind = "EventRateExceeded" -> [status |-> Tuple2(429, "Too Many Requests")]
      [] kind = "CompysitionException" -> [status |-> Tuple2(500, "Internal Server Error")]
      [] kind = "ServiceUnavailable" -> [status |-> Tuple2(503, "Service Unavailable")]
      [] kind = "NoneType" -> [status |-> Tuple2(200, "OK")]
      [] OTHER -> [status |-> Tuple2(500, "Internal Server Error")]

\* error_state.get("headers", {})
ErrorHeaders(error_state) ==
    IF "headers" \in DOMAIN error_state THEN error_state.headers ELSE EmptyMap

----------------------------------------------------------------------------
(* Attribute assignment.  An operation on an instance e with the headers   *)
(* heap h yields [e, h, ok, exc]: the instance and heap it leaves, and the *)
(* exception it raised if any.                                             *)

Done(e, h) == [e |-> e, h |-> h, ok |-> TRUE, exc |-> "none"]
Raised(e, h, exc) == [e |-> e, h |-> h, ok |-> FALSE, exc |-> exc]

\* the next statement runs on what r left, unless r raised
Then(r, Statement(_)) == IF r.ok THEN Statement(r) ELSE r

WithAttr(e, key, v) == [e EXCEPT !.d = Put(e.d, key, v)]
HasAttr(e, key) == key \in DOMAIN e.d

\* Python truth of a value
Truthy(v) ==
    CASE v.t = "None" -> FALSE
      [] v.t = "str" -> IF v.k = "plain" THEN v.c # "" ELSE TRUE
      [] v.t = "dict" -> DOMAIN v.m # {}
      [] v.t = "list" -> Len(v.items) > 0
      [] OTHER -> TRUE

\* the setter without its guard
SetEventIdUnguarded(e, h, event_id) == Done(WithAttr(e, "_event_id", event_id), h)

\* the event_id setter: self.get("_event_id", None) decides
SetEventId(e, h, event_id) ==
    IF HasAttr(e, "_event_id") /\ Truthy(e.d["_event_id"])
    THEN Raised(e, h, "InvalidEventDataModification")
    ELSE Done(WithAttr(e, "_event_id", event_id), h)

\* the data setter
StoreData(e, h, r) ==
    IF r.ok THEN Done(WithAttr(e, "_data", r.v), h) ELSE Raised(e, h, r.exc)

SetData(e, h, data) == StoreData(e, h, DataSetter(e.cls, data))

IsDigit(c) == \E i \in 1..Len(DigitStr) : DigitStr[i] = c
DigitVal(c) == (CHOOSE i \in 1..Len(DigitStr) : DigitStr[i] = c) - 1

\* whether int(s) accepts the string: decimal digits only
IsIntText(s) == Len(s) > 0 /\ \A i \in 1..Len(s) : IsDigit(SubSeq(s, i, i))

RECURSIVE IntOfText(_, _)
IntOfText(s, n) ==
    IF n = 0 THEN 0 ELSE 10 * IntOfText(s, n - 1) + DigitVal(SubSeq(s, n, n))

\* re.split(' |-', s, 1): the parts around the first space or hyphen
SplitOnce(s) ==
    LET seps == {i \in 1..Len(s) : SubSeq(s, i, i) \in {" ", "-"}}
    IN  IF seps = {} THEN <<s>>
        ELSE LET i == CHOOSE x \in seps : \A y \in seps : x <= y
             IN  <<SubSeq(s, 1, i - 1), SubSeq(s, i + 1, Len(s))>>

\* HttpEvent's status setter
SetStatus(e, h, status) ==
    IF status.t = "tuple" THEN Done(WithAttr(e, "_status", status), h)
    ELSE IF status.t = "str" /\ status.k = "plain"
    THEN LET parts == SplitOnce(status.c)
         IN  IF Len(parts) = 2
             THEN IF IsIntText(parts[1])
                  THEN Done(WithAttr(e, "_status",
                                     Tuple2(IntOfText(parts[1], Len(parts[1])), parts[2])), h)
                  ELSE Raised(e, h, "ValueError")
             ELSE Done(e, h)
    ELSE Done(e, h)

\* Event._set_error
EventSetError(e, h, exception) == Done(WithAttr(e, "_error", exception), h)

\* HttpEvent._set_error: the status, then the headers, then the error
\* self.headers.update(headers), then Event._set_error
UpdateHeadersAndStore(s, headers, exception) ==
    IF ~HasAttr(s.e, "headers")
    THEN Raised(s.e, s.h, "AttributeError")
    ELSE EventSetError(s.e,
                       [s.h EXCEPT ![s.e.d["headers"].r] = Update(@, headers)],
                       exception)

HttpSetError(e, h, exception) ==
    IF IsException(exception)
    THEN UpdateHeadersAndStore(SetStatus(e, h, http_code_map(exception.kind).status),
                               ErrorHeaders(http_code_map(exception.kind)),
                               exception)
    ELSE EventSetError(e, h, exception)

\* the error setter: self._set_error(exception), by the instance's class
SetError(e, h, exception) ==
    IF IsHttp(e.cls) THEN HttpSetError(e, h, exception)
    ELSE EventSetError(e, h, exception)

\* HttpEvent's pagination setter
SetPagination(e, h, pagination_dict) ==
    IF pagination_dict.t # "dict" THEN Raised(e, h, "TypeError")
    ELSE IF "limit" \in DOMAIN pagination_dict.m /\ "offset" \in DOMAIN pagination_dict.m
    THEN Done(WithAttr(e, "_pagination", pagination_dict), h)
    ELSE Raised(e, h, "ValueError")

\* setattr(self, key, value): a property's setter, else the __dict__
SetAttr(e, h, key, value) ==
    CASE key = "event_id" -> SetEventId(e, h, value)
      [] key = "data" -> SetData(e, h, value)
      [] key = "error" -> SetError(e, h, value)
      [] key = "status" /\ IsHttp(e.cls) -> SetStatus(e, h, value)
      [] key = "pagination" /\ IsHttp(e.cls) -> SetPagination(e, h, value)
      [] OTHER -> Done(WithAttr(e, key, value), h)

\* Event.set: the assignment, its exception swallowed
EventSet(e, h, key, value) ==
    LET r == SetAttr(e, h, key, value)
    IN  [r EXCEPT !.exc = "none"]

----------------------------------------------------------------------------
(* Construction *)

DEFAULT_EVENT_SERVICE == Text("default")

\* self.meta_id = meta_id if meta_id else self.event_id;
\* self.service = service or DEFAULT_EVENT_SERVICE
InitMeta(e, meta_id, service) ==
    WithAttr(WithAttr(e, "meta_id", IF Truthy(meta_id) THEN meta_id ELSE e.d["_event_id"]),
             "service", IF Truthy(service) THEN service ELSE DEFAULT_EVENT_SERVICE)

\* self.created = datetime.now(); self.__dict__.update(kwargs)
InitCreated(e, h, kwargs, now) ==
    Done([e EXCEPT !.d = Update(Put(e.d, "created", now), kwargs)], h)

\* Event.__init__ on an instance whose __dict__ is e.d so far
EventInit(e, h, meta_id, service, data, kwargs, uuid, now) ==
    Then(SetEventId(e, h, uuid), LAMBDA s1 :
    Then(SetData(InitMeta(s1.e, meta_id, service), s1.h, data), LAMBDA s2 :
    Then(SetError(s2.e, s2.h, None), LAMBDA s3 :
    InitCreated(s3.e, s3.h, kwargs, now))))

\* self.headers = headers or {}; self.method = environment.get(...)
InitHeaders(e, h, headers) ==
    Done(WithAttr(WithAttr(e, "headers", Ref(Len(h) + 1)), "method", None),
         Append(h, IF Truthy(headers) THEN headers.m ELSE EmptyMap))

\* self.environment = environment; self._pagination = pagination
InitPagination(e, pagination) ==
    WithAttr(WithAttr(e, "environment", Dict(EmptyMap)), "_pagination", pagination)

\* HttpEvent.__init__: headers, method, status, environment and _pagination,
\* then Event.__init__
HttpInit(e, h, headers, status, pagination, meta_id, service, data, kwargs, uuid, now) ==
    Then(InitHeaders(e, h, headers), LAMBDA s1 :
    Then(SetStatus(s1.e, s1.h, status), LAMBDA s2 :
    EventInit(InitPagination(s2.e, pagination), s2.h, meta_id, service, data, kwargs,
              uuid, now)))

\* cls(headers=, status=, pagination=, meta_id=, service=, data=, **kwargs)
Construct(cls, h, headers, status, pagination, meta_id, service, data, kwargs, uuid, now) ==
    IF IsHttp(cls)
    THEN HttpInit([cls |-> cls, d |-> EmptyMap], h, headers, status, pagination, meta_id,
                  service, data, kwargs, uuid, now)
    ELSE EventInit([cls |-> cls, d |-> EmptyMap], h, meta_id, service, data, kwargs, uuid,
                   now)

----------------------------------------------------------------------------
(* convert and clone *)

ClassOk(cls) == [ok |-> TRUE, cls |-> cls, exc |-> "none"]
ClassRaise(exc) == [ok |-> FALSE, cls |-> "none", exc |-> exc]

\* new_class = filter(lambda cls: cls.__bases__ == bases, built_classes)[0]
FirstBuilt(found) == IF Len(found) = 0 THEN ClassRaise("IndexError") ELSE ClassOk(found[1])

\* the complex widening branch, given the bases it computed
ComplexWidening(bases) ==
    IF Len(bases) = 1 THEN ClassOk(bases[1])
    ELSE FirstBuilt(SelectSeq(built_classes, LAMBDA c : Bases(c) = bases))

\* a conversion that keeps the source's class
NewClassOfSource(cls, convert_to) == ClassOk(cls)

\* the class convert() instantiates, or the exception it raises
NewClass(cls, convert_to) ==
    IF IsSubclass(convert_to, cls) THEN ClassOk(convert_to)
    ELSE IF ~IsSubclass(cls, convert_to)
    THEN ComplexWidening(<<convert_to>> \o
                         SelectSeq(Bases(cls) \o <<cls>>,
                                   LAMBDA c : /\ ~IsSubclass(c, "DataFormatInterface")
                                              /\ ~IsSubclass(convert_to, c)))
    \* InvalidEventConversion is not a name the module defines or imports
    ELSE ClassRaise("NameError")

\* new_class.__new__(new_class); __dict__.update(self.__dict__); the data setter
Instantiate(e, h, c) ==
    IF ~c.ok THEN Raised(e, h, c.exc)
    ELSE IF ~HasAttr(e, "_data") THEN Raised(e, h, "AttributeError")
    ELSE SetData([cls |-> c.cls, d |-> e.d], h, e.d["_data"])

\* Event.convert: the new instance (sharing the source's attribute values)
\* and the heap, or the exception
Convert(e, h, convert_to) == Instantiate(e, h, NewClass(e.cls, convert_to))

\* __getstate__ of the instance's class
GetState(e) ==
    CASE Family(e.cls) = "json" -> Put(e.d, "_data", JsonText(e.d["_data"]))
      [] Family(e.cls) = "xml" -> Put(e.d, "_data", XmlText(e.d["_data"]))
      [] OTHER -> e.d

\* deepcopy of the state: the headers dict is copied into a new heap cell
DeepCopyState(state, h) ==
    IF "headers" \in DOMAIN state
    THEN [state |-> Put(state, "headers", Ref(Len(h) + 1)),
          h |-> Append(h, h[state["headers"].r])]
    ELSE [state |-> state, h |-> h]

\* Event.__setstate__
SetState(cls, state, h) ==
    Then(SetData([cls |-> cls, d |-> state], h, state["_data"]), LAMBDA s1 :
    SetError(s1.e, s1.h, IF "_error" \in DOMAIN state THEN state["_error"] ELSE None))

Reconstruct(cls, copy) == SetState(cls, copy.state, copy.h)

\* Event.clone: deepcopy(self), through __getstate__ and __setstate__
Clone(e, h) == Reconstruct(e.cls, DeepCopyState(GetState(e), h))

----------------------------------------------------------------------------
(* Inputs *)

ConstructClasses ==
    {"Event", "XMLEvent", "JSONEvent", "HttpEvent", "JSONHttpEvent", "XMLHttpEvent"}

ConvertTargets == ConstructClasses

XmlA1 == Element("a", FALSE, "1", <<>>)

DataInputs ==
    { None,
      Text("hello"),
      JsonText(PyInt(5)),
      JsonText(Dict([a |-> UStr("1")])),
      XmlText(XmlA1),
      Dict([a |-> UStr("1"), b |-> UStr("2")]),
      XmlA1 }

ErrorInputs ==
    { None, Exc("ResourceNotFound"), Exc("UnauthorizedEvent"), Exc("KeyError") }

StatusInputs == { Tuple2(200, "OK"), Text("503 Service Unavailable"), Text("bogus") }

PaginationInputs ==
    { Dict([limit |-> PyInt(5)]), Dict([limit |-> PyInt(5), offset |-> PyInt(0)]) }

\* the data values assigned after construction
AssignedData == { None, Text("hello"), Dict([a |-> UStr("1"), b |-> UStr("2")]) }

\* the extension attributes given at construction (**kwargs)
ExtInputs == { [tag |-> Text("x")] }

Uuid1 == Text("uuid1")
Now0 == [t |-> "datetime", at |-> 0]
\* a later timestamp, assigned to created after construction
Now1 == [t |-> "datetime", at |-> 1]

----------------------------------------------------------------------------
(* The state machine *)

Obj(i) == [t |-> "obj", i |-> i]

\* the state after cls(...) returned or raised r
Constructed(cls, data, pagination, r) ==
    /\ events = IF r.ok THEN <<r.e>> ELSE <<>>
    /\ hdrs = IF r.ok THEN r.h ELSE <<>>
    /\ last = [op |-> "construct", obj |-> 0, key |-> "",
               args |-> [data |-> data, pagination |-> pagination],
               ok |-> r.ok, exc |-> r.exc, ret |-> IF r.ok THEN Obj(1) ELSE None,
               pre |-> [cls |-> cls, d |-> EmptyMap], preh |-> <<>>]
    /\ nops = 0

Outcome(op, obj, key, args, r, ret, pre, preh) ==
    [op |-> op, obj |-> obj, key |-> key, args |-> args, ok |-> r.ok, exc |-> r.exc,
     ret |-> ret, pre |-> pre, preh |-> preh]

Init ==
    \E cls \in ConstructClasses, data \in DataInputs, kwargs \in ExtInputs,
       pagination \in PaginationInputs \cup {None} :
        Constructed(cls, data, IF IsHttp(cls) THEN pagination ELSE None,
                    Construct(cls, <<>>, None, Tuple2(200, "OK"),
                              IF IsHttp(cls) THEN pagination ELSE None,
                              None, None, data, kwargs, Uuid1, Now0))

\* an operation on events[i] has left r: the instance is updated in place
Mutated(op, i, key, value, r, ret) ==
    /\ nops < MaxOps
    /\ events' = [events EXCEPT ![i] = r.e]
    /\ hdrs' = r.h
    /\ last' = Outcome(op, i, key, [value |-> value], r, ret, events[i], hdrs)
    /\ nops' = nops + 1

\* an operation on events[i] has returned the new instance r.e, or raised
Returned(op, i, args, r) ==
    /\ nops < MaxOps
    /\ Len(events) < MaxEvents
    /\ events' = IF r.ok THEN Append(events, r.e) ELSE events
    /\ hdrs' = IF r.ok THEN r.h ELSE hdrs
    /\ last' = Outcome(op, i, "", args, r, IF r.ok THEN Obj(Len(events) + 1) ELSE None,
                       events[i], hdrs)
    /\ nops' = nops + 1

\* event.key = value
Assign(i, key, value) ==
    Mutated("assign", i, key, value, SetAttr(events[i], hdrs, key, value), None)

AssignData == \E i \in DOMAIN events, v \in AssignedData : Assign(i, "data", v)

AssignError == \E i \in DOMAIN events, v \in ErrorInputs : Assign(i, "error", v)

AssignEventId == \E i \in DOMAIN events : Assign(i, "event_id", Text("forged"))

AssignMetaId == \E i \in DOMAIN events : Assign(i, "meta_id", Text("m1"))

\* event.created = value: created is a plain attribute of the instance
AssignCreated == \E i \in DOMAIN events : Assign(i, "created", Now1)

AssignStatus ==
    \E i \in DOMAIN events, v \in StatusInputs :
        IsHttp(events[i].cls) /\ Assign(i, "status", v)

AssignPagination ==
    \E i \in DOMAIN events, v \in PaginationInputs \cup {None} :
        IsHttp(events[i].cls) /\ Assign(i, "pagination", v)

SetReturned(op, i, key, value, r) == Mutated(op, i, key, value, r, PyBool(r.ok))

\* event.set(key, value)
CallSet ==
    \E i \in DOMAIN events, key \in {"event_id", "data", "created"} :
        \E value \in (CASE key = "data" -> {Text("hello")}
                        [] key = "created" -> {Now1}
                        [] OTHER -> {Text("forged")}) :
            SetReturned("set", i, key, value, EventSet(events[i], hdrs, key, value))

\* event.convert(convert_to)
CallConvert ==
    \E i \in DOMAIN events, convert_to \in ConvertTargets :
        Returned("convert", i, [convert_to |-> Text(convert_to)],
                 Convert(events[i], hdrs, convert_to))

\* event.clone()
CallClone ==
    \E i \in DOMAIN events : Returned("clone", i, EmptyMap, Clone(events[i], hdrs))

Next ==
    \/ AssignData
    \/ AssignError
    \/ AssignEventId
    \/ AssignMetaId
    \/ AssignCreated
    \/ AssignStatus
    \/ AssignPagination
    \/ CallSet
    \/ CallConvert
    \/ CallClone

Spec == Init /\ [][Next]_vars

----------------------------------------------------------------------------
(* The payload conversions on JSON containers: events of the two payload   *)
(* families holding mappings and sequences, assigned and converted         *)

\* the mappings and sequences given as data
JsonContainers ==
    { Dict(EmptyMap),
      List(<<>>),
      List(<<UStr("1")>>),
      List(<<UStr("1"), UStr("2")>>),
      Dict([a |-> UStr("1")]),
      Dict([a |-> UStr("1"), b |-> UStr("2")]),
      Dict([a |-> List(<<UStr("1"), UStr("2")>>)]),
      Dict([a |-> List(<<>>)]),
      Dict([a |-> Dict([b |-> UStr("2")])]) }

FormatClasses == {"JSONEvent", "XMLEvent"}

InitEnvelope ==
    \E cls \in FormatClasses, data \in JsonContainers \cup {None}, kwargs \in ExtInputs :
        Constructed(cls, data, None,
                    Construct(cls, <<>>, None, Tuple2(200, "OK"), None, None, None, data,
                              kwargs, Uuid1, Now0))

\* event.data = a mapping or a sequence
AssignContainer == \E i \in DOMAIN events, v \in JsonContainers : Assign(i, "data", v)

NextEnvelope ==
    \/ AssignContainer
    \/ CallConvert
    \/ CallClone

EnvelopeSpec == InitEnvelope /\ [][NextEnvelope]_vars

----------------------------------------------------------------------------
(* lookup *)

\* NullLookupValue(): every instance behaves alike
NullLookupValue == [t |-> "NullLookupValue"]

\* self, as the first element of the reduced list
SelfVal(e) == [t |-> "event", e |-> e]

\* a bound method or other class attribute that getattr returns
Method(of, name) == [t |-> "method", of |-> of, name |-> name]

\* names getattr finds on the class of a value; a few of each type's
ClassAttrs(obj) ==
    CASE obj.t = "event" -> {"get", "set", "lookup", "convert", "clone"}
      [] obj.t = "dict" -> {"get", "keys", "items"}
      [] obj.t = "list" -> {"append", "index"}
      [] obj.t \in {"str", "unicode"} -> {"upper", "strip"}
      [] obj.t = "int" -> {"real"}
      [] obj.t = "NullLookupValue" -> {"get"}
      [] OTHER -> {}

\* a headers dict is read through the heap
Deref(obj, h) ==
    IF obj.t = "ref" THEN Dict([k \in DOMAIN h[obj.r] |-> Text(h[obj.r][k])]) ELSE obj

\* a key that is a byte string or a unicode string, and its characters
IsStrKey(key) == (key.t = "str" /\ key.k = "plain") \/ key.t = "unicode"
KeyText(key) == IF key.t = "unicode" THEN key.u ELSE key.c

\* whether int(key) returns (an int, or a string of decimal digits), and what
HasIndex(key) == key.t = "int" \/ (IsStrKey(key) /\ IsIntText(KeyText(key)))
Index(key) ==
    IF key.t = "int" THEN key.n ELSE IntOfText(KeyText(key), Len(KeyText(key)))

\* obj[n]: lists, strings, tuples and lxml elements are indexable
GetItem(obj, n, default) ==
    CASE obj.t = "list" ->
            IF n < Len(obj.items) THEN obj.items[n + 1] ELSE default
      [] obj.t = "str" /\ obj.k = "plain" ->
            IF n < Len(obj.c) THEN Text(SubSeq(obj.c, n + 1, n + 1)) ELSE default
      [] obj.t = "unicode" ->
            IF n < Len(obj.u) THEN UStr(SubSeq(obj.u, n + 1, n + 1)) ELSE default
      [] obj.t = "tuple" ->
            IF n = 0 THEN PyInt(obj.code)
            ELSE IF n = 1 THEN Text(obj.reason) ELSE default
      [] obj.t = "xml" ->
            IF n < Len(obj.kids) THEN obj.kids[n + 1] ELSE default
      [] OTHER -> default

\* Event._list_get
_list_get(obj, key, default) ==
    IF HasIndex(key) THEN GetItem(obj, Index(key), default) ELSE default

\* what a property of the instance returns, or default when its getter
\* raises AttributeError
PropertyAttr(e, key) ==
    CASE key = "data" -> "_data"
      [] key = "event_id" -> "_event_id"
      [] key = "error" -> "_error"
      [] key = "status" /\ IsHttp(e.cls) -> "_status"
      [] key = "pagination" /\ IsHttp(e.cls) -> "_pagination"
      [] OTHER -> key

\* getattr(obj, name, default)
GetAttrNamed(obj, name, default) ==
    IF obj.t = "event" /\ PropertyAttr(obj.e, name) \in DOMAIN obj.e.d
    THEN obj.e.d[PropertyAttr(obj.e, name)]
    ELSE IF name \in ClassAttrs(obj) THEN Method(obj.t, name)
    ELSE default

\* Event._getattr: a key that is no string raises TypeError inside
_getattr(obj, key, default) ==
    IF IsStrKey(key) THEN GetAttrNamed(obj, KeyText(key), default) ELSE default

\* Event._obj_get: obj.get(key, default) of a dict, an Event, an lxml
\* element or a NullLookupValue; AttributeError for the rest
_obj_get(obj, key, default) ==
    CASE obj.t = "dict" ->
            IF IsStrKey(key) /\ KeyText(key) \in DOMAIN obj.m
            THEN obj.m[KeyText(key)] ELSE default
      [] obj.t = "event" -> _getattr(obj, key, default)
      [] obj.t = "NullLookupValue" -> obj
      [] obj.t = "xml" ->
            IF IsStrKey(key) /\ KeyText(key) = "force_list" /\ obj.force
            THEN UStr("True") ELSE default
      [] OTHER -> default

\* the lambda lookup reduces with
LookupStep(obj, key) ==
    _obj_get(obj, key, _getattr(obj, key, _list_get(obj, key, NullLookupValue)))

\* reduce(lambda, [self] + path), up to the first n keys of the path
RECURSIVE Reduce(_, _, _, _)
Reduce(e, h, path, n) ==
    IF n = 0 THEN SelfVal(e)
    ELSE LookupStep(Deref(Reduce(e, h, path, n - 1), h), path[n])

\* the list lookup reduces over: [path] for a str, path for a list;
\* [self] + path raises TypeError for every other type
PathList(path) ==
    IF path.t = "str" THEN Ok(<<path>>)
    ELSE IF path.t = "list" THEN Ok(path.items)
    ELSE Raise("TypeError")

NullToNone(value) == IF value.t = "NullLookupValue" THEN None ELSE value

\* Event.lookup: the value, or the exception
LookupPath(e, h, p) ==
    IF p.ok THEN Ok(NullToNone(Deref(Reduce(e, h, p.v, Len(p.v)), h))) ELSE p

lookup(e, h, path) == LookupPath(e, h, PathList(path))

\* the classes, data and paths of the lookups
LookupClasses == {"Event", "JSONEvent", "HttpEvent"}

LookupData ==
    { None,
      Text("hello"),
      Dict([a |-> None]),
      Dict([a |-> Dict([b |-> UStr("2")])]),
      List(<<UStr("1"), UStr("2")>>) }

PathInputs ==
    { Text("meta_id"),
      UStr("meta_id"),
      Text("nope"),
      List(<<Text("data"), Text("a")>>),
      List(<<Text("data"), Text("a"), Text("b")>>),
      List(<<Text("data"), Text("a"), Text("b"), Text("c")>>),
      List(<<Text("data"), Text("zzz"), Text("get")>>),
      List(<<Text("data"), Text("0")>>),
      List(<<Text("data"), PyInt(1)>>),
      List(<<Text("data"), Text("7")>>),
      List(<<Text("status"), PyInt(0)>>),
      List(<<Text("headers"), Text("WWW-Authenticate")>>) }

InitLookup ==
    \E cls \in LookupClasses, data \in LookupData, kwargs \in ExtInputs :
        Constructed(cls, data, None,
                    Construct(cls, <<>>, None, Tuple2(200, "OK"), None, None, None, data,
                              kwargs, Uuid1, Now0))

LookupReturned(i, path, r) ==
    Mutated("lookup", i, "", path, [e |-> events[i], h |-> hdrs, ok |-> r.ok, exc |-> r.exc],
            r.v)

\* event.lookup(path)
CallLookup ==
    \E i \in DOMAIN events, path \in PathInputs :
        LookupReturned(i, path, lookup(events[i], hdrs, path))

NextLookup ==
    \/ CallLookup
    \/ AssignError
    \/ CallConvert

LookupSpec == InitLookup /\ [][NextLookup]_vars

----------------------------------------------------------------------------
(* Vocabulary of the properties *)

\* the instance the last operation was called on, as it is now
Target == events[last.obj]

\* the instance the last operation returned
Result == events[last.ret.i]

OnEvent(op, key) == last.op = op /\ last.key = key

\* the headers of an instance, read through the heap
HeadersOf(e, h) == IF HasAttr(e, "headers") THEN h[e.d["headers"].r] ELSE EmptyMap

----------------------------------------------------------------------------
(* Properties *)

\* C1: once constructed, event_id never changes: every instance keeps the
\* id assigned at construction, a direct assignment of event_id raises
\* InvalidEventDataModification, set("event_id", v) returns False, and both
\* leave the instance as it was.
C1_EventIdImmutable ==
    /\ \A i \in DOMAIN events : events[i].d["_event_id"] = Uuid1
    /\ OnEvent("assign", "event_id") =>
          /\ ~last.ok
          /\ last.exc = "InvalidEventDataModification"
          /\ Target = last.pre
    /\ OnEvent("set", "event_id") =>
          /\ last.ret = PyBool(FALSE)
          /\ Target = last.pre

\* an assignment of event_id rejected after a metadata and an error assignment
C1_Witness ==
    /\ OnEvent("assign", "event_id")
    /\ ~last.ok
    /\ nops = MaxOps
    /\ last.pre.d["meta_id"] = Text("m1")
    /\ IsException(last.pre.d["_error"])

\* C2: on an HTTP-capable event whose status is the table entry of its
\* error, setting error to None resets status to (200, "OK").
C2_ClearErrorResetsStatus ==
    ( /\ OnEvent("assign", "error")
      /\ last.args.value = None
      /\ IsHttp(last.pre.cls)
      /\ IsException(last.pre.d["_error"])
      /\ HasAttr(last.pre, "_status")
      /\ last.pre.d["_status"] = http_code_map(last.pre.d["_error"].kind).status )
    => /\ last.ok
       /\ Target.d["_status"] = Tuple2(200, "OK")

\* C3: on an HTTP-capable event, after the error is cleared the headers hold
\* no header merged in by an earlier error (no caller of this model supplies
\* WWW-Authenticate, so its presence is always the table's).
C3_ClearErrorDropsErrorHeaders ==
    ( /\ OnEvent("assign", "error")
      /\ last.args.value = None
      /\ IsHttp(last.pre.cls) )
    => /\ last.ok
       /\ "WWW-Authenticate" \notin DOMAIN HeadersOf(Target, hdrs)

\* C4: on every HTTP-capable event, setting error to an exception stores it
\* and sets status to the code of its kind in the fixed status table, 500
\* for a kind outside the table, with WWW-Authenticate for UnauthorizedEvent.
C4_SetErrorStoresAndMapsStatus ==
    ( /\ OnEvent("assign", "error")
      /\ IsException(last.args.value)
      /\ IsHttp(last.pre.cls) )
    => LET kind == last.args.value.kind
           code == CASE kind = "ResourceNotModified" -> 304
                     [] kind = "MalformedEventData" -> 400
                     [] kind = "InvalidEventDataModification" -> 400
                     [] kind = "UnauthorizedEvent" -> 401
                     [] kind = "ForbiddenEvent" -> 403
                     [] kind = "ResourceNotFound" -> 404
                     [] kind = "EventCommandNotAllowed" -> 405
                     [] kind = "ActorTimeout" -> 408
                     [] kind = "ResourceConflict" -> 409
                     [] kind = "ResourceGone" -> 410
                     [] kind = "UnprocessableEventData" -> 422
                     [] kind = "EventRateExceeded" -> 429
                     [] kind = "CompysitionException" -> 500
                     [] kind = "ServiceUnavailable" -> 503
                     [] OTHER -> 500
       IN  /\ last.ok
           /\ Target.d["_error"] = last.args.value
           /\ HasAttr(Target, "_status")
           /\ Target.d["_status"].code = code
           /\ kind = "UnauthorizedEvent" =>
                 "WWW-Authenticate" \in DOMAIN HeadersOf(Target, hdrs)

\* C5: convert to a class whose capability set is a strict subset of the
\* source's raises the narrowing-conversion error (InvalidEventConversion),
\* returns no event and leaves the source as it was.
C5_NarrowingRejected ==
    ( /\ last.op = "convert"
      /\ Capabilities(last.args.convert_to.c) \subseteq Capabilities(last.pre.cls)
      /\ Capabilities(last.args.convert_to.c) # Capabilities(last.pre.cls) )
    => /\ ~last.ok
       /\ last.exc = "InvalidEventConversion"
       /\ last.ret = None
       /\ Target = last.pre
       /\ hdrs = last.preh

\* C6 as stated: convert to a class whose capability set is a superset of
\* the source's succeeds whatever the data, and returns an instance of the
\* target class with the source's attributes and the data in the target's
\* canonical form.
C6_WideningAlwaysSucceeds ==
    ( /\ last.op = "convert"
      /\ Capabilities(last.pre.cls) \subseteq Capabilities(last.args.convert_to.c) )
    => /\ last.ok
       /\ Result.cls = last.args.convert_to.c
       /\ \A k \in DOMAIN last.pre.d \ {"_data"} : Result.d[k] = last.pre.d[k]

\* C6 amended: convert to a class whose capability set is a superset of the
\* source's returns an instance of the target class, with every attribute
\* of the source and the source's data as the target's registry converts
\* it, whenever that registry accepts the data; when it rejects the data,
\* convert raises InvalidEventDataModification, returns no event and leaves
\* the source as it was.
C6_WideningWhenDataAccepted ==
    ( /\ last.op = "convert"
      /\ Capabilities(last.pre.cls) \subseteq Capabilities(last.args.convert_to.c) )
    => IF DataSetter(last.args.convert_to.c, last.pre.d["_data"]).ok
       THEN /\ last.ok
            /\ Result.cls = last.args.convert_to.c
            /\ DOMAIN Result.d = DOMAIN last.pre.d
            /\ \A k \in DOMAIN last.pre.d \ {"_data"} : Result.d[k] = last.pre.d[k]
            /\ Result.d["_data"] =
                 DataSetter(last.args.convert_to.c, last.pre.d["_data"]).v
            /\ Target = last.pre
       ELSE /\ ~last.ok
            /\ last.exc = "InvalidEventDataModification"
            /\ last.ret = None
            /\ Len(events) < MaxEvents
            /\ Target = last.pre
            /\ hdrs = last.preh

\* a plain event holding JSON text, widened to JSONHttpEvent: the text is
\* parsed and the extension attribute and a changed meta_id are carried over
C6_Witness ==
    /\ last.op = "convert"
    /\ last.ok
    /\ last.pre.cls = "Event"
    /\ Result.cls = "JSONHttpEvent"
    /\ last.pre.d["_data"] = JsonText(Dict([a |-> UStr("1")]))
    /\ Result.d["_data"] = Dict([a |-> UStr("1")])
    /\ Result.d["tag"] = Text("x")
    /\ Result.d["meta_id"] = Text("m1")

\* C7: convert between a payload-format class and HttpEvent, in either
\* direction, returns the composite class holding both capabilities.
C7_SidewaysYieldsUnion ==
    ( /\ last.op = "convert"
      /\ last.ok
      /\ <<last.pre.cls, last.args.convert_to.c>> \in
            { <<"JSONEvent", "HttpEvent">>, <<"XMLEvent", "HttpEvent">>,
              <<"HttpEvent", "JSONEvent">>, <<"HttpEvent", "XMLEvent">> } )
    => /\ Result.cls \in {"JSONHttpEvent", "XMLHttpEvent"}
       /\ Capabilities(Result.cls) =
             Capabilities(last.pre.cls) \cup Capabilities(last.args.convert_to.c)

\* C8: clone succeeds and returns an instance of the same class with equal
\* attributes and equal headers, sharing no headers dict with any other
\* instance.  Stated for the instances that hold the attributes
\* HttpEvent.__init__ sets: those convert builds from a non-HTTP event
\* lack them, which is the subject of C9.
C8_CloneEqualAndIndependent ==
    ( /\ last.op = "clone"
      /\ IsHttp(last.pre.cls) => {"headers", "_status"} \subseteq DOMAIN last.pre.d )
    => /\ last.ok
       /\ Result.cls = last.pre.cls
       /\ DOMAIN Result.d = DOMAIN last.pre.d
       /\ \A k \in DOMAIN last.pre.d \ {"headers"} : Result.d[k] = last.pre.d[k]
       /\ HeadersOf(Result, hdrs) = HeadersOf(last.pre, last.preh)
       /\ Target = last.pre
       /\ HasAttr(Result, "headers") =>
             \A i \in DOMAIN events :
                 (i # last.ret.i /\ HasAttr(events[i], "headers"))
                     => events[i].d["headers"] # Result.d["headers"]

\* C9: a failed data or error assignment, convert or clone leaves every
\* field of the event, and every headers dict, as it was.
C9_FailedOperationChangesNothing ==
    ( /\ ~last.ok
      /\ \/ last.op \in {"convert", "clone"}
         \/ last.op \in {"assign", "set"} /\ last.key \in {"data", "error"} )
    => /\ Target = last.pre
       /\ hdrs = last.preh

\* C10: the pagination of an HTTP-capable event is None or a mapping with
\* both limit and offset: construction with, or assignment of, a mapping
\* lacking either raises; an assigned mapping with both is stored as given.
C10_PaginationValidated ==
    LET valid(p) == p.t = "dict" /\ {"limit", "offset"} \subseteq DOMAIN p.m
    IN  /\ \A i \in DOMAIN events :
              (IsHttp(events[i].cls) /\ HasAttr(events[i], "_pagination"))
                  => \/ events[i].d["_pagination"] = None
                     \/ valid(events[i].d["_pagination"])
        /\ (last.op = "construct" /\ last.args.pagination.t = "dict"
               /\ ~valid(last.args.pagination)) => ~last.ok
        /\ (OnEvent("assign", "pagination") /\ last.args.value.t = "dict") =>
              IF valid(last.args.value)
              THEN last.ok /\ Target.d["_pagination"] = last.args.value
              ELSE ~last.ok /\ last.exc = "ValueError" /\ Target = last.pre

\* C11: every HTTP-capable instance, whether constructed, returned by
\* convert or returned by clone, holds a status that is a pair with an
\* integer code, and a headers dict, whatever was assigned to status.
C11_HttpStatusAndHeadersDefined ==
    \A i \in DOMAIN events :
        IsHttp(events[i].cls) =>
            /\ HasAttr(events[i], "_status")
            /\ events[i].d["_status"].t = "tuple"
            /\ events[i].d["_status"].code \in Int
            /\ HasAttr(events[i], "headers")
            /\ events[i].d["headers"].r \in DOMAIN hdrs

\* C14: created never changes after construction: an assignment of created
\* raises the immutable-field error (InvalidEventDataModification),
\* set("created", v) returns False, and both leave the instance as it was.
C14_CreatedImmutable ==
    /\ \A i \in DOMAIN events : events[i].d["created"] = Now0
    /\ OnEvent("assign", "created") =>
          /\ ~last.ok
          /\ last.exc = "InvalidEventDataModification"
          /\ Target = last.pre
    /\ OnEvent("set", "created") =>
          /\ last.ret = PyBool(FALSE)
          /\ Target = last.pre

\* whether a value is a JSON-like container
IsContainer(v) == v.t \in {"dict", "list"}

\* the container the XML registry received from the last operation, if the
\* operation handed one to it: at construction of, assignment to, or
\* conversion into an XML event
XmlisedContainer ==
    CASE last.op = "construct" /\ Family(last.pre.cls) = "xml" -> last.args.data
      [] OnEvent("assign", "data") /\ Family(last.pre.cls) = "xml" -> last.args.value
      [] last.op = "convert" /\ Family(last.args.convert_to.c) = "xml"
            /\ Family(last.pre.cls) = "json" -> last.pre.d["_data"]
      [] OTHER -> None

\* C15: for every mapping or sequence, the empty ones included, the
\* envelope rule returns a mapping with exactly one key whose value is not
\* a sequence, and the construction, assignment or conversion that hands
\* the container to an XML event succeeds.
C15_EnvelopeTotalOnContainers ==
    IsContainer(XmlisedContainer) =>
        /\ internal_xmlify(XmlisedContainer).ok
        /\ internal_xmlify(XmlisedContainer).v.t = "dict"
        /\ Cardinality(DOMAIN internal_xmlify(XmlisedContainer).v.m) = 1
        /\ \A k \in DOMAIN internal_xmlify(XmlisedContainer).v.m :
               internal_xmlify(XmlisedContainer).v.m[k].t # "list"
        /\ last.ok

\* the containers the JSON-to-XML rule wraps: a sequence, a mapping with
\* more than one key, a single-key mapping whose value is a sequence
Enveloped(v) ==
    \/ v.t = "list"
    \/ /\ v.t = "dict"
       /\ \/ Cardinality(DOMAIN v.m) > 1
          \/ /\ Cardinality(DOMAIN v.m) = 1
             /\ \A k \in DOMAIN v.m : v.m[k].t = "list"

HasEnvelopeKey(v) == v.t = "dict" /\ "jsonified_envelope" \in DOMAIN v.m

\* the same top-level shape and keys
SameTopLevel(v, w) ==
    /\ w.t = v.t
    /\ v.t = "dict" => DOMAIN w.m = DOMAIN v.m
    /\ v.t = "list" => Len(w.items) = Len(v.items)

\* C12: when an XML event holding the XML form of a wrapped container v,
\* held by a JSON event, is converted to a JSON event, the data of the
\* result has the top-level shape and keys of v and no envelope key.
C12_RoundTripRemovesEnvelope ==
    ( /\ last.op = "convert"
      /\ last.ok
      /\ Family(last.pre.cls) = "xml"
      /\ Family(Result.cls) = "json" )
    => \A j \in DOMAIN events :
          ( /\ Family(events[j].cls) = "json"
            /\ IsContainer(events[j].d["_data"])
            /\ Enveloped(events[j].d["_data"])
            /\ ~HasEnvelopeKey(events[j].d["_data"])
            /\ XmlConversion(events[j].d["_data"]).ok
            /\ last.pre.d["_data"] = XmlConversion(events[j].d["_data"]).v )
          => /\ SameTopLevel(events[j].d["_data"], Result.d["_data"])
             /\ ~HasEnvelopeKey(Result.d["_data"])

\* the list of keys of the last lookup, and the value reached after n of them
LastPath == PathList(last.args.value).v
Reached(n) == Deref(Reduce(last.pre, last.preh, LastPath, n), last.preh)

\* a value no step can be taken on: a scalar, None, or a missing value
IsScalarOrAbsent(v) == v.t \in {"str", "unicode", "int", "bool", "None", "NullLookupValue"}

\* C13: lookup never raises, and when a step is taken on a missing, null or
\* scalar value reached by the steps before it, the result is None.
C13_LookupForgiving ==
    last.op = "lookup" =>
        /\ last.ok
        /\ \A n \in 1..(Len(LastPath) - 1) :
              IsScalarOrAbsent(Reached(n)) => last.ret = None
====
